---- MODULE Spec2Model ----
(***************************************************************************)
(* Model of the real-time duplex voice session of LiveLab                  *)
(* (src/LiveLab.tsx): the lifecycle controller (startSession, stopSession, *)
(* the start/stop button), the capture pipeline (onaudioprocess), the      *)
(* playback scheduler (onmessage) and the transcript log.                  *)
(*                                                                         *)
(* JavaScript runs every handler to completion, so one action is one       *)
(* handler invocation.  startSession has two suspension points (the await  *)
(* of getUserMedia, line 61, and the await of the connect promise, line    *)
(* 148); each continuation is its own action.  The await of                *)
(* decodeAudioData (line 113) is no suspension point for other handlers:   *)
(* decodeAudioData (src/VideoLab.tsx:261-278) contains no await, so its    *)
(* continuation runs in the same task; onmessage is one action.            *)
(*                                                                         *)
(* The transport is an external collaborator.  Each call of ai.live.connect*)
(* makes one connection, named by the number of the startSession call that *)
(* made it.  Its callbacks close over the refs of the component, which all *)
(* sessions share, and are delivered in the orders a WebSocket allows:     *)
(* open, then messages, then error and/or close; a close that the client   *)
(* requested is reported by a later onclose task.                          *)
(***************************************************************************)
EXTENDS Integers, Sequences, FiniteSets, TLC

\* ---- bounds of the model ------------------------------------------------
MaxSessions == 2      \* calls of startSession
MaxTime     == 2      \* ticks of the output AudioContext clock
MaxChunks   == 2      \* decodable audio chunks received
MaxFrames   == 2      \* capture callbacks fired
MaxLog      == 4      \* transcript length up to which fragments arrive
MaxLen      == 2      \* samples in one capture buffer
MaxRecordings == 2    \* recordings made in the transcription panel
SampleDen   == 5      \* a sample is k / SampleDen, a multiple of one fifth

Sessions  == 1..MaxSessions
Durations == {1, 2}                  \* audioBuffer.duration, in units of 0.5 s
Texts     == {"hi"}                  \* outputTranscription.text
Errors    == {"403", "permission", "other"}   \* what the error message contains
Recordings == 1..MaxRecordings

SessionEnded          == "[Session Ended]"
ConnectionEstablished == "[Connection Established]"

VARIABLES
  \* React state
  isActive, isConnecting, authError, transcription,
  \* refs
  sessionRef, nextStartTimeRef, sourcesRef, isStoppingRef, outputCtx,
  \* environment: device clock, startSession calls, connections, microphone
  ctxTime, nStarts, pc, conn, micHeld, capturing, pending, sent, frames,
  playing, ending, nChunks,
  \* history
  closeCalls, stopCalled, stopWhileActive, endedBy, cancelled,
  chunk, run, staleCursor, ignored, lastThrow,
  \* the PCM codec: a capture buffer, its 16-bit conversion, the encoding of
  \* that, and the decoded buffer
  inputData, int16, pcmData, channelData,
  \* the one-shot transcription panel (TranscriptionLab): its React state, its
  \* recorder ref, the recordings started and the phase of each
  isRecording, isLoading, transcriptionText, panelAuthError, mediaRecorderRef,
  nRecordings, phase

vars == <<isActive, isConnecting, authError, transcription,
          sessionRef, nextStartTimeRef, sourcesRef, isStoppingRef, outputCtx,
          ctxTime, nStarts, pc, conn, micHeld, capturing, pending, sent, frames,
          playing, ending, nChunks, closeCalls, stopCalled, stopWhileActive,
          endedBy, cancelled, chunk, run, staleCursor, ignored, lastThrow,
          inputData, int16, pcmData, channelData,
          isRecording, isLoading, transcriptionText, panelAuthError,
          mediaRecorderRef, nRecordings, phase>>

reactVars == <<isActive, isConnecting, authError, transcription>>
playVars  == <<nextStartTimeRef, sourcesRef, playing, ending, nChunks, chunk,
               run, staleCursor>>
capVars   == <<capturing, pending, sent, frames>>
lifeVars  == <<sessionRef, isStoppingRef, outputCtx, nStarts, pc, conn, micHeld,
               closeCalls, stopCalled, stopWhileActive, endedBy, cancelled>>
codecVars == <<inputData, int16, pcmData, channelData>>
panelVars == <<isRecording, isLoading, transcriptionText, panelAuthError,
               mediaRecorderRef, nRecordings, phase>>
sessionVars == <<reactVars, lifeVars, playVars, capVars, ctxTime, ignored,
                 lastThrow>>

Max(a, b) == IF a >= b THEN a ELSE b

\* ---- pure helpers ---------------------------------------------------------

\* err?.message?.includes('403') || err?.message?.toLowerCase().includes('permission')
IsAuthFailure(e) == e = "403" \/ e = "permission"

\* `AI: ${text}`
AiLine(t) == <<"AI: ", t>>

\* an updater that puts the marker in front of the log
PrependEnded(prev) == <<SessionEnded>> \o prev

\* the updater of setTranscription in stopSession
AppendEnded(prev) ==
  IF Len(prev) > 0 /\ prev[Len(prev)] = SessionEnded
    THEN prev
    ELSE Append(prev, SessionEnded)

\* a button that lacks the disabled attribute
ButtonNeverDisabled == FALSE

\* the button is disabled={isConnecting}
ButtonDisabled == isConnecting

\* onClick={isActive ? stopSession : startSession}
ButtonCallsStop == isActive

\* a scheduler that starts every chunk at the device time and ignores the cursor
CursorIgnored(cursor, now) == now

\* Math.max(nextStartTimeRef.current, ctx.currentTime)
CursorAtArrival(cursor, now) == Max(cursor, now)

\* a handler whose interrupted branch also ends the session
ActiveUntilInterrupt(m) == isActive /\ ~m.interrupted

\* isActive after onmessage: no branch of the handler calls setIsActive
ActiveAfterMessage(m) == isActive

\* a scheduler that leaves the cursor at the start of the chunk
CursorNotAdvanced(start, dur) == start

\* nextStartTimeRef.current += audioBuffer.duration, after source.start(cursor)
CursorAfterChunk(start, dur) == start + dur

\* nextStartTimeRef.current = 0 on interruption
CursorAfterInterrupt == 0

\* session.close() as the transport sees it
CloseEffect(st) == IF st = "open" THEN "closing" ELSE st

\* the identities of a set of sources
Ids(set) == {src.id : src \in set}

\* no chunk scheduled yet / no run of chunks under way.  chunk.stale and
\* staleCursor hold the cursor an interruption signal found, or -1 when no
\* interruption signal has arrived since the last audio payload.
NoChunk == [start |-> 0, dur |-> 0, at |-> 0, prevEnd |-> -1, stale |-> -1]
NoRun   == [n |-> 0, offset |-> 0, sum |-> 0, onTime |-> TRUE]

\* what the last teardown saw thrown: by close(), and by the stop() of sources
NoThrow == [close |-> FALSE, stops |-> {}]

InFlight == {s \in Sessions : pc[s] \in {"mic", "connect"}}

\* ---- initial state ----------------------------------------------------------
Init ==
  /\ isActive = FALSE
  /\ isConnecting = FALSE
  /\ authError = FALSE
  /\ transcription = <<>>
  /\ sessionRef = 0
  /\ nextStartTimeRef = 0
  /\ sourcesRef = {}
  /\ isStoppingRef = FALSE
  /\ outputCtx = 0
  /\ ctxTime = 0
  /\ nStarts = 0
  /\ pc = [s \in Sessions |-> "idle"]
  /\ conn = [s \in Sessions |-> "none"]
  /\ micHeld = {}
  /\ capturing = {}
  /\ pending = [s \in Sessions |-> <<>>]
  /\ sent = <<>>
  /\ frames = 0
  /\ playing = {}
  /\ ending = {}
  /\ nChunks = 0
  /\ closeCalls = [s \in Sessions |-> 0]
  /\ stopCalled = {}
  /\ stopWhileActive = {}
  /\ endedBy = [s \in Sessions |-> 0]
  /\ cancelled = [s \in Sessions |-> "no"]
  /\ chunk = NoChunk
  /\ run = NoRun
  /\ staleCursor = -1
  /\ ignored = FALSE
  /\ lastThrow = NoThrow
  /\ inputData = <<>>
  /\ int16 = <<>>
  /\ pcmData = <<>>
  /\ channelData = <<>>
  /\ isRecording = FALSE
  /\ isLoading = FALSE
  /\ transcriptionText = ""
  /\ panelAuthError = FALSE
  /\ mediaRecorderRef = 0
  /\ nRecordings = 0
  /\ phase = [r \in Recordings |-> "none"]

\* ---- stopSession ------------------------------------------------------------
\* a statement outside any try block: what it throws leaves the handler
Uncaught(exc) == exc

\* try { ... } catch (e) { ... }: nothing leaves the statement
Caught(exc) == FALSE

\* the smallest identity of a non-empty set of identities
MinId(ids) == CHOOSE i \in ids : \A j \in ids : i <= j

\* stopSession called on behalf of session `by`; connBase is the transport
\* state after the event that made the call.  closeThrows tells whether
\* close() throws, failed holds the sources whose stop() throws.
StopSessionWith(by, connBase, closeThrows, failed) ==
  /\ stopCalled' = stopCalled \cup {by}
  /\ stopWhileActive' = IF isActive /\ by = nStarts
                          THEN stopWhileActive \cup {by} ELSE stopWhileActive
  /\ cancelled' = [s \in Sessions |->
                     IF s \in InFlight /\ cancelled[s] = "no"
                       THEN (IF s \in capturing THEN "opened" ELSE "unopened")
                       ELSE cancelled[s]]
  /\ IF isStoppingRef
       THEN /\ conn' = connBase
            /\ UNCHANGED <<isStoppingRef, isActive, sessionRef, closeCalls,
                           transcription, sourcesRef, playing, ending,
                           endedBy, lastThrow>>
       ELSE LET closeFails   == sessionRef # 0 /\ closeThrows
                stopFails    == failed \cap Ids(sourcesRef)
                closeEscapes == Caught(closeFails)
                stopEscapes  == ~closeEscapes /\ Caught(stopFails # {})
                \* forEach visits the sources in the order of their insertion
                stopped == IF closeEscapes THEN {}
                           ELSE {src \in sourcesRef :
                                   /\ src.id \notin stopFails
                                   /\ stopEscapes => src.id < MinId(stopFails)}
            IN
            /\ isStoppingRef' = TRUE
            /\ isActive' = FALSE
            /\ lastThrow' = [close |-> closeFails, stops |-> stopFails]
            /\ closeCalls' = IF sessionRef # 0
                               THEN [closeCalls EXCEPT ![sessionRef] = @ + 1]
                               ELSE closeCalls
            /\ conn' = IF sessionRef # 0 /\ ~closeFails
                         THEN [connBase EXCEPT ![sessionRef] = CloseEffect(@)]
                         ELSE connBase
            /\ sessionRef' = IF closeEscapes THEN sessionRef ELSE 0
            /\ transcription' = IF closeEscapes THEN transcription
                                ELSE AppendEnded(transcription)
            /\ endedBy' = IF transcription' # transcription
                            THEN [endedBy EXCEPT ![by] = @ + 1] ELSE endedBy
            /\ playing' = playing \ stopped
            /\ ending' = ending \cup Ids(stopped)
            /\ sourcesRef' = IF closeEscapes \/ stopEscapes
                               THEN sourcesRef ELSE {}

\* stopSession when neither close() nor any stop() throws
StopSession(by, connBase) == StopSessionWith(by, connBase, FALSE, {})

\* ---- the button -------------------------------------------------------------
\* a startSession without setIsConnecting(true)
ClickStartNotConnecting ==
  /\ UNCHANGED <<ignored, lastThrow, codecVars, panelVars>>
  /\ ~ButtonDisabled
  /\ ~ButtonCallsStop
  /\ nStarts < MaxSessions
  /\ nStarts' = nStarts + 1
  /\ authError' = FALSE
  /\ isConnecting' = isConnecting
  /\ isStoppingRef' = FALSE
  /\ pc' = [pc EXCEPT ![nStarts + 1] = "mic"]
  /\ UNCHANGED <<isActive, transcription, sessionRef, outputCtx, ctxTime, conn,
                 micHeld, closeCalls, stopCalled, stopWhileActive, endedBy,
                 cancelled>>
  /\ UNCHANGED <<playVars, capVars>>

\* the button calls startSession, which runs up to its first await
ClickStart ==
  /\ UNCHANGED <<ignored, lastThrow, codecVars, panelVars>>
  /\ ~ButtonDisabled
  /\ ~ButtonCallsStop
  /\ nStarts < MaxSessions
  /\ nStarts' = nStarts + 1
  /\ authError' = FALSE
  /\ isConnecting' = TRUE
  /\ isStoppingRef' = FALSE
  /\ pc' = [pc EXCEPT ![nStarts + 1] = "mic"]
  /\ UNCHANGED <<isActive, transcription, sessionRef, outputCtx, ctxTime, conn,
                 micHeld, closeCalls, stopCalled, stopWhileActive, endedBy,
                 cancelled>>
  /\ UNCHANGED <<playVars, capVars>>

ClickStop ==
  /\ UNCHANGED <<ignored, codecVars, panelVars>>
  /\ ~ButtonDisabled
  /\ ButtonCallsStop
  /\ StopSession(nStarts, conn)
  /\ UNCHANGED <<isConnecting, authError, outputCtx, ctxTime, nStarts, pc,
                 micHeld, nextStartTimeRef, nChunks, chunk, run, staleCursor>>
  /\ UNCHANGED capVars

\* End Call when close() throws or the stop() of some sources throws
ClickStopThrows ==
  /\ UNCHANGED <<ignored, codecVars, panelVars>>
  /\ ~ButtonDisabled
  /\ ButtonCallsStop
  /\ \E closeThrows \in BOOLEAN, failed \in SUBSET Ids(sourcesRef) :
        /\ (sessionRef # 0 /\ closeThrows) \/ failed # {}
        /\ StopSessionWith(nStarts, conn, closeThrows, failed)
  /\ UNCHANGED <<isConnecting, authError, outputCtx, ctxTime, nStarts, pc,
                 micHeld, nextStartTimeRef, nChunks, chunk, run, staleCursor>>
  /\ UNCHANGED capVars

\* a click on the disabled button reaches no handler
ClickIgnored ==
  /\ ButtonDisabled
  /\ ignored' = TRUE
  /\ UNCHANGED <<lastThrow, codecVars, panelVars>>
  /\ UNCHANGED <<reactVars, lifeVars, ctxTime>>
  /\ UNCHANGED <<playVars, capVars>>

\* ---- startSession after each await --------------------------------------------
MicGranted(s) ==
  /\ UNCHANGED <<ignored, lastThrow, codecVars, panelVars>>
  /\ pc[s] = "mic"
  /\ micHeld' = micHeld \cup {s}
  /\ outputCtx' = s
  /\ ctxTime' = 0
  /\ run' = NoRun
  /\ conn' = [conn EXCEPT ![s] = "opening"]
  /\ pc' = [pc EXCEPT ![s] = "connect"]
  /\ UNCHANGED <<reactVars, sessionRef, isStoppingRef, nStarts, closeCalls,
                 stopCalled, stopWhileActive, endedBy, cancelled,
                 nextStartTimeRef, sourcesRef, playing, ending, nChunks, chunk,
                 staleCursor>>
  /\ UNCHANGED capVars

\* a catch block that leaves the connecting flag as it is
StartFailedStillConnecting(s, e) ==
  /\ authError' = (authError \/ IsAuthFailure(e))
  /\ isConnecting' = isConnecting
  /\ pc' = [pc EXCEPT ![s] = "failed"]

\* the catch block of startSession
StartFailed(s, e) ==
  /\ authError' = (authError \/ IsAuthFailure(e))
  /\ isConnecting' = FALSE
  /\ pc' = [pc EXCEPT ![s] = "failed"]

MicDenied(s, e) ==
  /\ UNCHANGED <<ignored, lastThrow, codecVars, panelVars>>
  /\ pc[s] = "mic"
  /\ StartFailed(s, e)
  /\ UNCHANGED <<isActive, transcription, sessionRef, isStoppingRef, outputCtx,
                 ctxTime, nStarts, conn, micHeld, closeCalls, stopCalled,
                 stopWhileActive, endedBy, cancelled>>
  /\ UNCHANGED <<playVars, capVars>>

ConnectRejected(s, e) ==
  /\ UNCHANGED <<ignored, lastThrow, codecVars, panelVars>>
  /\ pc[s] = "connect"
  /\ s \notin capturing
  /\ conn[s] \in {"opening", "errored", "closed"}
  /\ StartFailed(s, e)
  /\ conn' = [conn EXCEPT ![s] = "closed"]
  /\ UNCHANGED <<isActive, transcription, sessionRef, isStoppingRef, outputCtx,
                 ctxTime, nStarts, micHeld, closeCalls, stopCalled,
                 stopWhileActive, endedBy, cancelled>>
  /\ UNCHANGED <<playVars, capVars>>

\* then-callbacks that run in the reverse of the order of their registration
SendableReversed(s, fs) ==
  IF isStoppingRef THEN <<>>
  ELSE [i \in 1..Len(fs) |->
          [conn |-> s, n |-> fs[Len(fs) + 1 - i], state |-> conn[s],
           stopped |-> s \in stopCalled, deferred |-> pc[s] = "connect"]]

\* the frames the then-callbacks let through, in the order of their
\* registration; deferred tells whether they waited for the connect promise
Sendable(s, fs) ==
  IF isStoppingRef THEN <<>>
  ELSE [i \in 1..Len(fs) |->
          [conn |-> s, n |-> fs[i], state |-> conn[s],
           stopped |-> s \in stopCalled, deferred |-> pc[s] = "connect"]]

\* sessionRef.current = await sessionPromise, then the deferred then-callbacks
ConnectResolved(s) ==
  /\ UNCHANGED <<ignored, lastThrow, codecVars, panelVars>>
  /\ pc[s] = "connect"
  /\ s \in capturing
  /\ sessionRef' = s
  /\ pc' = [pc EXCEPT ![s] = "done"]
  /\ sent' = sent \o Sendable(s, pending[s])
  /\ pending' = [pending EXCEPT ![s] = <<>>]
  /\ UNCHANGED <<reactVars, isStoppingRef, outputCtx, ctxTime, nStarts, conn,
                 micHeld, closeCalls, stopCalled, stopWhileActive, endedBy,
                 cancelled, capturing, frames>>
  /\ UNCHANGED playVars

\* ---- transport callbacks --------------------------------------------------------
OnOpen(s) ==
  /\ UNCHANGED <<ignored, lastThrow, codecVars, panelVars>>
  /\ conn[s] = "opening"
  /\ pc[s] = "connect"
  /\ conn' = [conn EXCEPT ![s] = "open"]
  /\ isConnecting' = FALSE
  /\ isActive' = TRUE
  /\ transcription' = Append(transcription, ConnectionEstablished)
  /\ capturing' = capturing \cup {s}
  /\ UNCHANGED <<authError, sessionRef, isStoppingRef, outputCtx, ctxTime,
                 nStarts, pc, micHeld, closeCalls, stopCalled, stopWhileActive,
                 endedBy, cancelled, pending, sent, frames>>
  /\ UNCHANGED playVars

OnError(s, e) ==
  /\ UNCHANGED <<ignored, codecVars, panelVars>>
  /\ conn[s] \in {"opening", "open"}
  /\ authError' = (authError \/ IsAuthFailure(e))
  /\ StopSession(s, [conn EXCEPT ![s] = "errored"])
  /\ UNCHANGED <<isConnecting, outputCtx, ctxTime, nStarts, pc, micHeld,
                 nextStartTimeRef, nChunks, chunk, run, staleCursor>>
  /\ UNCHANGED capVars

OnClose(s) ==
  /\ UNCHANGED <<ignored, codecVars, panelVars>>
  /\ conn[s] \in {"opening", "open", "errored", "closing"}
  /\ StopSession(s, [conn EXCEPT ![s] = "closed"])
  /\ UNCHANGED <<isConnecting, authError, outputCtx, ctxTime, nStarts, pc,
                 micHeld, nextStartTimeRef, nChunks, chunk, run, staleCursor>>
  /\ UNCHANGED capVars

\* ---- onmessage ------------------------------------------------------------------
\* serverContent: outputTranscription, modelTurn.parts[0].inlineData (absent,
\* malformed, or PCM of duration dur), interrupted
Messages ==
  {m \in [text : Texts \cup {"none"},
          audio : {"none", "bad", "pcm"},
          dur : Durations \cup {0},
          interrupted : BOOLEAN] : (m.audio = "pcm") <=> (m.dur # 0)}

OnMessage(s, m) ==
  /\ UNCHANGED <<ignored, lastThrow, codecVars, panelVars>>
  /\ conn[s] = "open"
  /\ m.text # "none" => Len(transcription) < MaxLog
  /\ m.audio = "pcm" => nChunks < MaxChunks
  /\ isActive' = ActiveAfterMessage(m)
  /\ UNCHANGED <<isConnecting, authError>>
  /\ UNCHANGED lifeVars
  /\ UNCHANGED ctxTime
  /\ UNCHANGED capVars
  /\ IF isStoppingRef
       THEN UNCHANGED <<transcription, nextStartTimeRef, sourcesRef, playing,
                        ending, nChunks, chunk, run, staleCursor>>
       ELSE
         LET cur    == CursorAtArrival(nextStartTimeRef, ctxTime)
             good   == m.audio = "pcm"
             thrown == m.audio = "bad"
             src    == [id |-> nChunks + 1, ctx |-> outputCtx,
                        start |-> cur, dur |-> m.dur]
             srcs1  == IF good THEN sourcesRef \cup {src} ELSE sourcesRef
             play1  == IF good THEN playing \cup {src} ELSE playing
             next1  == IF good THEN CursorAfterChunk(cur, m.dur)
                       ELSE IF thrown THEN cur ELSE nextStartTimeRef
             run1   == IF good
                         THEN IF run.n = 0
                                THEN [n |-> 1, offset |-> cur, sum |-> m.dur,
                                      onTime |-> TRUE]
                                ELSE [n |-> run.n + 1, offset |-> run.offset,
                                      sum |-> run.sum + m.dur,
                                      onTime |-> run.onTime
                                                 /\ ctxTime <= chunk.start + chunk.dur]
                         ELSE run
             stale1 == IF m.audio # "none" THEN -1 ELSE staleCursor
             intr   == m.interrupted /\ ~thrown
         IN
         /\ transcription' = IF m.text # "none"
                               THEN Append(transcription, AiLine(m.text))
                               ELSE transcription
         /\ nChunks' = IF good THEN nChunks + 1 ELSE nChunks
         /\ chunk' = IF good
                       THEN [start |-> cur, dur |-> m.dur, at |-> ctxTime,
                             prevEnd |-> IF run.n = 0 THEN -1
                                         ELSE chunk.start + chunk.dur,
                             stale |-> staleCursor]
                       ELSE chunk
         /\ sourcesRef' = IF intr THEN {} ELSE srcs1
         /\ playing' = IF intr THEN play1 \ srcs1 ELSE play1
         /\ ending' = IF intr THEN ending \cup Ids(srcs1) ELSE ending
         /\ nextStartTimeRef' = IF intr THEN CursorAfterInterrupt ELSE next1
         /\ run' = IF intr THEN NoRun ELSE run1
         /\ staleCursor' = IF m.interrupted
                             THEN (IF stale1 >= 0 THEN stale1 ELSE next1)
                             ELSE stale1

\* a listener that empties the set
DeleteAll(set, id) == {}

\* sourcesRef.current.delete(source): the set without that source, and the
\* same set when the source is not in it
DeleteSource(set, id) == {src \in set : src.id # id}

\* the 'ended' listener of a source that played to its end:
\* sourcesRef.current.delete(source)
SourceEnded(src) ==
  /\ UNCHANGED <<ignored, lastThrow, codecVars, panelVars>>
  /\ src \in playing
  /\ src.ctx # outputCtx \/ ctxTime >= src.start + src.dur
  /\ playing' = playing \ {src}
  /\ sourcesRef' = DeleteSource(sourcesRef, src.id)
  /\ UNCHANGED <<reactVars, lifeVars, ctxTime, nextStartTimeRef, ending,
                 nChunks, chunk, run, staleCursor>>
  /\ UNCHANGED capVars

\* the 'ended' listener of a source that stop() cut off
StoppedEnded(id) ==
  /\ UNCHANGED <<ignored, lastThrow, codecVars, panelVars>>
  /\ id \in ending
  /\ ending' = ending \ {id}
  /\ sourcesRef' = DeleteSource(sourcesRef, id)
  /\ UNCHANGED <<reactVars, lifeVars, ctxTime, nextStartTimeRef, playing,
                 nChunks, chunk, run, staleCursor>>
  /\ UNCHANGED capVars

\* ---- capture: scriptProcessor.onaudioprocess -------------------------------------
Frame(s) ==
  /\ UNCHANGED <<ignored, lastThrow, codecVars, panelVars>>
  /\ s \in capturing
  /\ frames < MaxFrames
  /\ frames' = frames + 1
  /\ IF pc[s] = "done"
       THEN /\ sent' = sent \o Sendable(s, <<frames + 1>>)
            /\ UNCHANGED pending
       ELSE /\ pending' = [pending EXCEPT ![s] = Append(@, frames + 1)]
            /\ UNCHANGED sent
  /\ UNCHANGED <<reactVars, sessionRef, isStoppingRef, outputCtx, ctxTime,
                 nStarts, pc, conn, micHeld, closeCalls, stopCalled,
                 stopWhileActive, endedBy, cancelled, capturing>>
  /\ UNCHANGED playVars

\* ---- the output device clock -------------------------------------------------------
Tick ==
  /\ UNCHANGED <<ignored, lastThrow, codecVars, panelVars>>
  /\ outputCtx # 0
  /\ ctxTime < MaxTime
  /\ ctxTime' = ctxTime + 1
  /\ UNCHANGED <<reactVars, sessionRef, isStoppingRef, outputCtx, nStarts, pc,
                 conn, micHeld, closeCalls, stopCalled, stopWhileActive,
                 endedBy, cancelled>>
  /\ UNCHANGED <<playVars, capVars>>

\* ---- the PCM codec ------------------------------------------------------------------
\* e.inputBuffer.getChannelData(0): the numerators k of samples k / SampleDen,
\* and the buffers made of them; the samples are floats of nominal range
\* [-1, 1] that nothing clamps to it, so they are taken from [-2, 2]
Samples == -(2 * SampleDen) .. 2 * SampleDen
Buffers == UNION {[1..n -> Samples] : n \in 1..MaxLen}

\* the integer part of a / b, b > 0: the fraction is dropped
Trunc(a, b) == IF a >= 0 THEN a \div b ELSE -((-a) \div b)

\* the store into an Int16Array element: modulo 2^16, read back as signed
ToInt16(n) == LET u == n % 65536 IN IF u >= 32768 THEN u - 65536 ELSE u

\* a conversion that saturates at the ends of the 16-bit range
Int16Clamped(k) ==
  LET t == Trunc(k * 32768, SampleDen)
  IN  IF t > 32767 THEN 32767 ELSE IF t < -32768 THEN -32768 ELSE t

\* int16[i] = inputData[i] * 32768
Int16Of(k) == ToInt16(Trunc(k * 32768, SampleDen))

\* new Uint8Array(int16.buffer): two bytes per element, low byte first
RECURSIVE BytesOf(_)
BytesOf(elems) ==
  IF elems = <<>> THEN <<>>
  ELSE LET u == Head(elems) % 65536
       IN <<u % 256, u \div 256>> \o BytesOf(Tail(elems))

\* btoa: three bytes become four sextets; 64 stands for the padding '='
RECURSIVE Btoa(_)
Btoa(b) ==
  IF Len(b) = 0 THEN <<>>
  ELSE IF Len(b) = 1
    THEN <<b[1] \div 4, (b[1] % 4) * 16, 64, 64>>
  ELSE IF Len(b) = 2
    THEN <<b[1] \div 4, (b[1] % 4) * 16 + b[2] \div 16, (b[2] % 16) * 4, 64>>
  ELSE <<b[1] \div 4, (b[1] % 4) * 16 + b[2] \div 16,
         (b[2] % 16) * 4 + b[3] \div 64, b[3] % 64>>
       \o Btoa(SubSeq(b, 4, Len(b)))

\* atob: four sextets become up to three bytes
RECURSIVE Atob(_)
Atob(c) ==
  IF Len(c) < 4 THEN <<>>
  ELSE LET b1 == c[1] * 4 + c[2] \div 16
           b2 == (c[2] % 16) * 16 + c[3] \div 4
           b3 == (c[3] % 4) * 64 + c[4]
       IN (IF c[3] = 64 THEN <<b1>>
           ELSE IF c[4] = 64 THEN <<b1, b2>>
           ELSE <<b1, b2, b3>>) \o Atob(SubSeq(c, 5, Len(c)))

\* encode(bytes): the binary string has one character per byte
Encode(bytes) == Btoa(bytes)

\* decode(base64): one byte per character of the binary string
Decode(base64) == Atob(base64)

\* new Int16Array(data.buffer): pairs of bytes, low byte first, read as signed
\* (the buffers of the codec have an even length; a payload of odd length
\* throws here, which is the "bad" payload of OnMessage)
RECURSIVE Int16Array(_)
Int16Array(data) ==
  IF Len(data) < 2 THEN <<>>
  ELSE <<ToInt16(data[1] + 256 * data[2])>>
       \o Int16Array(SubSeq(data, 3, Len(data)))

\* decodeAudioData with one channel: channelData[i] = dataInt16[i] / 32768.0,
\* kept as the numerator over 32768
DecodeAudioData(data) == Int16Array(data)

\* onaudioprocess up to pcmBlob: the buffer is converted and encoded (the
\* conversion keeps nothing from one call to the next, so a behaviour
\* converts one buffer)
EncodeFrame(samples) ==
  /\ inputData = <<>>
  /\ inputData' = samples
  /\ int16' = [i \in 1..Len(samples) |-> Int16Of(samples[i])]
  /\ pcmData' = Encode(BytesOf(int16'))
  /\ channelData' = <<>>
  /\ UNCHANGED <<sessionVars, panelVars>>

\* the encoded buffer is decoded as the playback path decodes a payload
DecodeFrame ==
  /\ pcmData # <<>>
  /\ channelData = <<>>
  /\ channelData' = DecodeAudioData(Decode(pcmData))
  /\ UNCHANGED <<inputData, int16, pcmData>>
  /\ UNCHANGED <<sessionVars, panelVars>>

\* message shapes
TextMessages  == {m \in Messages : m.text # "none" /\ m.audio = "none"
                                   /\ ~m.interrupted}
AudioMessages == {m \in Messages : m.text = "none"
                                   /\ (m.audio # "none" \/ m.interrupted)}
ChunkMessages == {m \in AudioMessages : m.audio = "pcm" /\ ~m.interrupted}

\* ---- the one-shot transcription panel --------------------------------------------
Transcribing      == "Transcribing your audio..."
CouldNotTranscribe == "Could not transcribe audio."

\* no call of processTranscription is between its first and its last statement
PanelQuiet == \A r \in Recordings : phase[r] # "started"

\* the record button while not recording: startRecording up to its await
StartRecording ==
  /\ PanelQuiet
  /\ ~isRecording
  /\ nRecordings < MaxRecordings
  /\ panelAuthError' = FALSE
  /\ nRecordings' = nRecordings + 1
  /\ phase' = [phase EXCEPT ![nRecordings + 1] = "asking"]
  /\ UNCHANGED <<isRecording, isLoading, transcriptionText, mediaRecorderRef>>
  /\ UNCHANGED <<sessionVars, codecVars>>

\* getUserMedia resolves: the recorder is made and started
RecordingGranted(r) ==
  /\ PanelQuiet
  /\ phase[r] = "asking"
  /\ mediaRecorderRef' = r
  /\ isRecording' = TRUE
  /\ phase' = [phase EXCEPT ![r] = "recording"]
  /\ UNCHANGED <<isLoading, transcriptionText, panelAuthError, nRecordings>>
  /\ UNCHANGED <<sessionVars, codecVars>>

\* getUserMedia rejects: the catch block of startRecording alerts
RecordingDenied(r) ==
  /\ PanelQuiet
  /\ phase[r] = "asking"
  /\ phase' = [phase EXCEPT ![r] = "denied"]
  /\ UNCHANGED <<isRecording, isLoading, transcriptionText, panelAuthError,
                 mediaRecorderRef, nRecordings>>
  /\ UNCHANGED <<sessionVars, codecVars>>

\* the record button while recording
StopRecording ==
  /\ PanelQuiet
  /\ isRecording
  /\ mediaRecorderRef # 0
  /\ phase[mediaRecorderRef] = "recording"
  /\ isRecording' = FALSE
  /\ phase' = [phase EXCEPT ![mediaRecorderRef] = "stopping"]
  /\ UNCHANGED <<isLoading, transcriptionText, panelAuthError, mediaRecorderRef,
                 nRecordings>>
  /\ UNCHANGED <<sessionVars, codecVars>>

\* onstop calls processTranscription, which begins: the flag is set and the
\* placeholder is shown
OnStop(r) ==
  /\ PanelQuiet
  /\ phase[r] = "stopping"
  /\ isLoading' = TRUE
  /\ transcriptionText' = Transcribing
  /\ phase' = [phase EXCEPT ![r] = "started"]
  /\ UNCHANGED <<isRecording, panelAuthError, mediaRecorderRef, nRecordings>>
  /\ UNCHANGED <<sessionVars, codecVars>>

\* the try block of processTranscription starts the reader and registers
\* onloadend, nothing in it throws or awaits, and the finally block runs
ProcessTranscriptionReturns(r) ==
  /\ phase[r] = "started"
  /\ isLoading' = FALSE
  /\ phase' = [phase EXCEPT ![r] = "reading"]
  /\ UNCHANGED <<isRecording, transcriptionText, panelAuthError,
                 mediaRecorderRef, nRecordings>>
  /\ UNCHANGED <<sessionVars, codecVars>>

\* reader.onloadend up to its await: the request is sent
OnLoadEnd(r) ==
  /\ PanelQuiet
  /\ phase[r] = "reading"
  /\ phase' = [phase EXCEPT ![r] = "inflight"]
  /\ UNCHANGED <<isRecording, isLoading, transcriptionText, panelAuthError,
                 mediaRecorderRef, nRecordings>>
  /\ UNCHANGED <<sessionVars, codecVars>>

\* generateContent resolves: response.text || "Could not transcribe audio."
ResponseArrived(r, text) ==
  /\ PanelQuiet
  /\ phase[r] = "inflight"
  /\ transcriptionText' = IF text = "" THEN CouldNotTranscribe ELSE text
  /\ phase' = [phase EXCEPT ![r] = "done"]
  /\ UNCHANGED <<isRecording, isLoading, panelAuthError, mediaRecorderRef,
                 nRecordings>>
  /\ UNCHANGED <<sessionVars, codecVars>>

\* generateContent rejects: the rejection leaves the async onloadend callback,
\* which nothing awaits, so the catch block of processTranscription is not run
RequestRejected(r, e) ==
  /\ PanelQuiet
  /\ phase[r] = "inflight"
  /\ phase' = [phase EXCEPT ![r] = "failed"]
  /\ UNCHANGED <<isRecording, isLoading, transcriptionText, panelAuthError,
                 mediaRecorderRef, nRecordings>>
  /\ UNCHANGED <<sessionVars, codecVars>>

\* ---- specifications -------------------------------------------------------------
\* the lifecycle controller: sessions whose messages carry transcription only
Next ==
  \/ ClickStart
  \/ ClickStop
  \/ ClickIgnored
  \/ \E s \in Sessions : MicGranted(s)
  \/ \E s \in Sessions, e \in Errors : MicDenied(s, e)
  \/ \E s \in Sessions, e \in Errors : ConnectRejected(s, e)
  \/ \E s \in Sessions : ConnectResolved(s)
  \/ \E s \in Sessions : OnOpen(s)
  \/ \E s \in Sessions, e \in Errors : OnError(s, e)
  \/ \E s \in Sessions : OnClose(s)
  \/ \E s \in Sessions, m \in TextMessages : OnMessage(s, m)

Spec == Init /\ [][Next]_vars

\* the capture pipeline: sessions that open, capture and are stopped
NextCapture ==
  \/ ClickStart
  \/ ClickStop
  \/ \E s \in Sessions : MicGranted(s)
  \/ \E s \in Sessions : ConnectResolved(s)
  \/ \E s \in Sessions : OnOpen(s)
  \/ \E s \in Sessions : OnClose(s)
  \/ \E s \in Sessions : Frame(s)

SpecCapture == Init /\ [][NextCapture]_vars

\* the playback scheduler: sessions that open, receive audio while the device
\* clock runs, and are stopped and restarted from the button
NextPlay ==
  \/ ClickStart
  \/ ClickStop
  \/ \E s \in Sessions : MicGranted(s)
  \/ \E s \in Sessions : OnOpen(s)
  \/ \E s \in Sessions, m \in AudioMessages : OnMessage(s, m)
  \/ \E src \in playing : SourceEnded(src)
  \/ \E id \in ending : StoppedEnded(id)
  \/ Tick

SpecPlay == Init /\ [][NextPlay]_vars

\* scheduling and the active-source set: one session whose chunks are
\* scheduled, played to their end or interrupted, never stopped from the button
NextSources ==
  \/ ClickStart
  \/ \E s \in Sessions : MicGranted(s)
  \/ \E s \in Sessions : OnOpen(s)
  \/ \E s \in Sessions, m \in AudioMessages : OnMessage(s, m)
  \/ \E src \in playing : SourceEnded(src)
  \/ \E id \in ending : StoppedEnded(id)
  \/ Tick

SpecSources == Init /\ [][NextSources]_vars

\* the teardown: sessions that open, schedule decodable chunks and are ended
\* from the button, with close() or the stop() of some sources throwing
NextTeardown ==
  \/ ClickStart
  \/ ClickStop
  \/ ClickStopThrows
  \/ \E s \in Sessions : MicGranted(s)
  \/ \E s \in Sessions : ConnectResolved(s)
  \/ \E s \in Sessions : OnOpen(s)
  \/ \E s \in Sessions, m \in ChunkMessages : OnMessage(s, m)

SpecTeardown == Init /\ [][NextTeardown]_vars

\* the codec: buffers are encoded and decoded again
NextCodec ==
  \/ \E samples \in Buffers : EncodeFrame(samples)
  \/ DecodeFrame

SpecCodec == Init /\ [][NextCodec]_vars

\* the transcription panel: recordings are made, stopped and transcribed
NextPanel ==
  \/ StartRecording
  \/ StopRecording
  \/ \E r \in Recordings : RecordingGranted(r)
  \/ \E r \in Recordings : RecordingDenied(r)
  \/ \E r \in Recordings : OnStop(r)
  \/ \E r \in Recordings : ProcessTranscriptionReturns(r)
  \/ \E r \in Recordings : OnLoadEnd(r)
  \/ \E r \in Recordings, text \in Texts \cup {""} : ResponseArrived(r, text)
  \/ \E r \in Recordings, e \in Errors : RequestRejected(r, e)

SpecPanel == Init /\ [][NextPanel]_vars

TypeOK ==
  /\ isActive \in BOOLEAN /\ isConnecting \in BOOLEAN /\ authError \in BOOLEAN
  /\ sessionRef \in 0..MaxSessions
  /\ nextStartTimeRef \in Nat
  /\ isStoppingRef \in BOOLEAN
  /\ nStarts \in 0..MaxSessions
  /\ ctxTime \in 0..MaxTime
  /\ nChunks \in 0..MaxChunks
  /\ lastThrow.close \in BOOLEAN
  /\ Len(inputData) <= MaxLen
  /\ Len(int16) = Len(inputData)
  /\ isRecording \in BOOLEAN /\ isLoading \in BOOLEAN
  /\ mediaRecorderRef \in 0..MaxRecordings
  /\ nRecordings \in 0..MaxRecordings
  /\ Len(channelData) <= MaxLen

Idle == ~isActive /\ ~isConnecting

\* connections the transport holds open
OpenConns == {s \in Sessions : conn[s] = "open"}

\* ---- C1 ------------------------------------------------------------------------
\* C1: for a session that reached ACTIVE, one or more calls of stop() (from the
\* button or from that session's onerror/onclose) append exactly one
\* "[Session Ended]" entry to the transcript.
C1_ExactlyOneSessionEnded ==
  \A s \in Sessions :
    (s \in capturing /\ s \in stopCalled) => endedBy[s] = 1

\* ---- C2 ------------------------------------------------------------------------
\* C2: when stop() is called while a session is ACTIVE, close() is invoked on
\* that session's connection exactly once.
C2_ClosedExactlyOnce ==
  \A s \in stopWhileActive : closeCalls[s] = 1

\* ---- C3 ------------------------------------------------------------------------
\* C3: once stop() has been called for a session, the microphone stream that
\* its start() acquired is no longer held.
C3_MicReleasedByStop ==
  \A s \in stopCalled : s \notin micHeld

\* ---- C4 ------------------------------------------------------------------------
\* C4: start() is not entered while the state is CONNECTING or ACTIVE: in such a
\* state no startSession call begins, the stop guard is not reset, and a click
\* on the disabled button changes nothing of the component.
C4_StartOnlyFromIdle ==
  [][ /\ ~Idle => /\ nStarts' = nStarts
                  /\ isStoppingRef => isStoppingRef'
                  /\ Cardinality(InFlight') <= Cardinality(InFlight)
      /\ ignored' # ignored =>
            /\ ~Idle
            /\ UNCHANGED <<reactVars, lifeVars, ctxTime, playVars, capVars>>
    ]_vars

\* a click arrived while the only session was still connecting
C4_Witness ==
  ignored /\ isConnecting /\ nStarts = 1 /\ Cardinality(micHeld) = 1

\* ---- C5 ------------------------------------------------------------------------
\* C5: in every reachable state at most one microphone stream is held and at
\* most one transport connection is open.
C5_AtMostOneMicAndConnection ==
  /\ Cardinality(micHeld) <= 1
  /\ Cardinality(OpenConns) <= 1

\* ---- C6 ------------------------------------------------------------------------
\* C6 as stated: in a run of chunks without interruption the latest chunk starts
\* at the start of the first chunk plus the durations of the chunks before it.
C6_StartIsSumOfDurations ==
  run.n >= 1 => chunk.start = run.offset + run.sum - chunk.dur

\* C6 amended: each chunk of a run starts at the later of the end of the chunk
\* before it and the device time at its arrival, so no two chunks overlap; when
\* every chunk arrived no later than the end of the chunk before it, the latest
\* chunk starts at the start of the first plus the durations of those before it.
C6_StartIsEndOfPreviousOrNow ==
  /\ chunk.prevEnd >= 0 => /\ chunk.start = Max(chunk.prevEnd, chunk.at)
                           /\ chunk.start >= chunk.prevEnd
  /\ (run.n >= 1 /\ run.onTime) =>
        chunk.start = run.offset + run.sum - chunk.dur

\* two chunks in one run, the second after an idle gap of the device
C6_Witness ==
  run.n = 2 /\ ~run.onTime /\ chunk.start + chunk.dur = nextStartTimeRef

\* ---- C7 ------------------------------------------------------------------------
\* C7: once an interruption signal has arrived in an active session, no source
\* is left in the active-source set or playing, and the next chunk starts at
\* the device time of its arrival, not at a cursor value from before the
\* interruption.
C7_InterruptionResets ==
  /\ staleCursor >= 0 => (sourcesRef = {} /\ playing = {})
  /\ chunk.stale >= 0 => chunk.start = chunk.at

\* ---- C8 ------------------------------------------------------------------------
\* C8: no frame is sent on the connection of a session for which stop() has
\* been requested.
C8_NoFrameSentAfterStop ==
  \A i \in DOMAIN sent : ~sent[i].stopped

\* ---- C9 ------------------------------------------------------------------------
\* C9: after stop() was called while a start() was in flight, that start has no
\* further effect: if its connection had not opened, no open callback begins
\* its capture; and the resolution of its connect call stores no session handle.
C9_InFlightStartCancelled ==
  \A s \in Sessions :
    /\ cancelled[s] = "unopened" => s \notin capturing
    /\ cancelled[s] # "no" => sessionRef # s

\* ---- C10 -----------------------------------------------------------------------
\* C10: every call of stop() leaves the lifecycle state IDLE (neither connecting
\* nor active).
C10_StopEndsIdle ==
  [][ (stopCalled' # stopCalled \/ (~isStoppingRef /\ isStoppingRef'))
        => Idle' ]_vars

\* ---- C11 -----------------------------------------------------------------------
\* C11: an authorization failure, whether it rejects the connect call of start()
\* or arrives at the error callback, sets the authError flag and invokes stop()
\* for the session it belongs to.
C11_AuthFailureStops ==
  [][ \A s \in Sessions, e \in Errors :
        (IsAuthFailure(e) /\ (ConnectRejected(s, e) \/ OnError(s, e)))
          => (authError' /\ s \in stopCalled') ]_vars

\* ---- C12 -----------------------------------------------------------------------
\* C12: a buffer of samples in [-1, 1], encoded as the capture path encodes it
\* and decoded as the playback path decodes it, comes back with as many
\* samples, each within 1/32768 of the original.
C12_RoundTrip ==
  (/\ channelData # <<>>
   /\ \A i \in 1..Len(inputData) :
        -SampleDen <= inputData[i] /\ inputData[i] <= SampleDen) =>
    /\ Len(channelData) = Len(inputData)
    /\ \A i \in 1..Len(inputData) :
         LET d == channelData[i] * SampleDen - inputData[i] * 32768
         IN  -SampleDen <= d /\ d <= SampleDen

\* ---- C13 -----------------------------------------------------------------------
\* C13: from the teardown of stop() until the next start() the active-source set
\* is empty and no source is left playing, and no message of a session for
\* which stop() was called adds a source to the set afterwards.
C13_NoSourceAfterStop ==
  /\ [](isStoppingRef => (sourcesRef = {} /\ playing = {}))
  /\ [][ \A s \in stopCalled, m \in AudioMessages :
           OnMessage(s, m) => sourcesRef' \subseteq sourcesRef ]_vars

\* ---- C14 -----------------------------------------------------------------------
\* C14: a message of a session for which stop() has been called is not
\* processed: the transcript, the active-source set, the playing sources and
\* the cursor stay as they were.
C14_NoMessageAfterStop ==
  [][ \A s \in stopCalled, m \in Messages :
        OnMessage(s, m) =>
          UNCHANGED <<transcription, sourcesRef, playing, nextStartTimeRef>>
    ]_vars

\* ---- C15 -----------------------------------------------------------------------
\* C15: an error or a close that the transport reports for the session that is
\* ACTIVE leaves it not active, its connection no longer open, the active-source
\* set empty with nothing playing, and "[Session Ended]" as the last log entry.
C15_RemoteEndStops ==
  [][ \A s \in Sessions :
        (/\ isActive /\ s = nStarts /\ conn[s] = "open"
         /\ (OnClose(s) \/ \E e \in Errors : OnError(s, e)))
        => /\ ~isActive'
           /\ conn'[s] \notin {"opening", "open"}
           /\ sourcesRef' = {} /\ playing' = {}
           /\ Len(transcription') > 0
           /\ transcription'[Len(transcription')] = SessionEnded
    ]_vars

\* ---- C16 -----------------------------------------------------------------------
\* C16: a teardown in which close() throws, or the stop() of some sources
\* throws, still drops the session handle, appends "[Session Ended]", empties
\* the active-source set and stops every source whose stop() did not throw.
C16_TeardownSurvivesThrows ==
  [][ (~isStoppingRef /\ isStoppingRef') =>
        /\ ~isActive'
        /\ sessionRef' = 0
        /\ Len(transcription') > 0
        /\ transcription'[Len(transcription')] = SessionEnded
        /\ sourcesRef' = {}
        /\ \A src \in sourcesRef :
             src.id \notin lastThrow'.stops => src \notin playing'
    ]_vars

\* a teardown in which close() and the stop() of one of two sources threw: the
\* marker is the last entry, the set is empty, only that source still plays
C16_Witness ==
  /\ isStoppingRef
  /\ lastThrow.close
  /\ Cardinality(lastThrow.stops) = 1
  /\ Ids(playing) = lastThrow.stops
  /\ ending # {}
  /\ sourcesRef = {}
  /\ sessionRef = 0
  /\ transcription[Len(transcription)] = SessionEnded

\* ---- C17 -----------------------------------------------------------------------
\* C17: a message whose audio payload does not decode adds no source, leaves the
\* session active and calls no stop(), and its other parts are still handled:
\* its transcription is appended, and its interruption marker stops and clears
\* the sources and resets the cursor.
C17_DecodeFailureContained ==
  [][ \A s \in Sessions, m \in Messages :
        (m.audio = "bad" /\ ~isStoppingRef /\ OnMessage(s, m)) =>
          /\ sourcesRef' \subseteq sourcesRef
          /\ nChunks' = nChunks
          /\ isActive' = isActive
          /\ isStoppingRef' = isStoppingRef
          /\ stopCalled' = stopCalled
          /\ m.text # "none" =>
               transcription' = Append(transcription, AiLine(m.text))
          /\ m.interrupted =>
               /\ sourcesRef' = {}
               /\ playing' = {}
               /\ nextStartTimeRef' = CursorAfterInterrupt
    ]_vars

\* ---- C18 -----------------------------------------------------------------------
\* C18: when getUserMedia fails, the start ends there: the state is IDLE, no
\* connection has been opened for it, the transcript and the microphone are
\* untouched, no new start is made, and the failed start opens no connection
\* later.
C18_MicFailureAbandonsStart ==
  [][ \A s \in Sessions :
        /\ (pc[s] = "mic" /\ pc'[s] = "failed") =>
              /\ Idle'
              /\ conn'[s] = "none"
              /\ transcription' = transcription
              /\ micHeld' = micHeld
              /\ nStarts' = nStarts
        /\ (pc[s] = "failed" /\ conn[s] = "none") =>
              (pc'[s] = "failed" /\ conn'[s] = "none")
    ]_vars

\* the only start failed at the microphone
C18_Witness ==
  /\ nStarts = 1
  /\ pc[1] = "failed"
  /\ conn[1] = "none"
  /\ micHeld = {}
  /\ transcription = <<>>
  /\ Idle

\* ---- C19 -----------------------------------------------------------------------
\* C19: after a restart, with no connection of an earlier session left open,
\* the first chunk scheduled on the output context of the new session starts
\* at the device time of its arrival.
C19_FreshCursorAfterRestart ==
  (/\ nStarts >= 2 /\ outputCtx = nStarts /\ run.n = 1
   /\ \A t \in 1..(nStarts - 1) : conn[t] # "open")
    => chunk.start = chunk.at

\* ---- C20 -----------------------------------------------------------------------
\* C20: every chunk is scheduled at the later of the cursor and the device time
\* at its arrival, never before that device time, and at that device time when
\* the clock has passed the cursor; the source added for it starts there, and
\* the cursor is left at its end (or at 0 when the same message also carries an
\* interruption, which empties the set).
C20_StartIsMaxOfCursorAndNow ==
  [][ nChunks' = nChunks + 1 =>
        /\ chunk'.at = ctxTime
        /\ chunk'.start = Max(nextStartTimeRef, ctxTime)
        /\ chunk'.start >= ctxTime
        /\ ctxTime >= nextStartTimeRef => chunk'.start = ctxTime
        /\ \/ /\ nextStartTimeRef' = chunk'.start + chunk'.dur
              /\ \E src \in sourcesRef' \ sourcesRef :
                   src.start = chunk'.start /\ src.dur = chunk'.dur
           \/ /\ nextStartTimeRef' = CursorAfterInterrupt
              /\ sourcesRef' = {}
    ]_vars

\* a chunk that arrived after the clock had passed the end of the chunk before
\* it: it starts at its arrival time and the cursor is at its end
C20_Witness ==
  /\ chunk.prevEnd >= 0
  /\ chunk.at > chunk.prevEnd
  /\ chunk.start = chunk.at
  /\ nextStartTimeRef = chunk.start + chunk.dur
  /\ \E src \in sourcesRef : src.start = chunk.at /\ src.id = nChunks

\* ---- C21 -----------------------------------------------------------------------
\* C21: a message that carries an interruption (and no transcription) in an
\* active session leaves the session active, every connection as it was, the
\* transcript and the authError flag unchanged, and the capture running with
\* the stop guard clear.
C21_InterruptionKeepsLifecycle ==
  [][ \A s \in Sessions, m \in AudioMessages :
        (m.interrupted /\ isActive /\ ~isStoppingRef /\ OnMessage(s, m)) =>
          /\ isActive'
          /\ ~isConnecting'
          /\ conn' = conn
          /\ sessionRef' = sessionRef
          /\ transcription' = transcription
          /\ authError' = authError
          /\ capturing' = capturing
          /\ micHeld' = micHeld
          /\ ~isStoppingRef'
          /\ stopCalled' = stopCalled
    ]_vars

\* an interruption has stopped the audio of the first session, which goes on
C21_Witness ==
  /\ nStarts = 1
  /\ nChunks >= 1
  /\ staleCursor >= 0
  /\ nextStartTimeRef = 0
  /\ sourcesRef = {}
  /\ isActive
  /\ ~isStoppingRef
  /\ conn[1] = "open"
  /\ 1 \in capturing

\* ---- C22 -----------------------------------------------------------------------
\* C22: the 'ended' event of a source that played to its end removes that source
\* from the active-source set and nothing else, leaving the cursor, the state
\* and the guard as they were; the 'ended' event of a source that a stop or an
\* interruption has already cleared from the set changes none of them.
C22_EndedRemovesOnlyThatSource ==
  [][ /\ \A src \in playing :
           SourceEnded(src) =>
             /\ sourcesRef' = sourcesRef \ {src}
             /\ nextStartTimeRef' = nextStartTimeRef
             /\ UNCHANGED <<reactVars, isStoppingRef, sessionRef, conn>>
      /\ \A id \in ending :
           StoppedEnded(id) =>
             /\ sourcesRef' = sourcesRef
             /\ nextStartTimeRef' = nextStartTimeRef
             /\ UNCHANGED <<reactVars, isStoppingRef, sessionRef, conn>>
    ]_vars

\* of two chunks scheduled in the first session, with no stop and no
\* interruption, one has played to its end and the other is still in the set
C22_Witness ==
  /\ nStarts = 1
  /\ nChunks = 2
  /\ run.n = 2
  /\ ~isStoppingRef
  /\ staleCursor < 0
  /\ ending = {}
  /\ Cardinality(sourcesRef) = 1
  /\ playing = sourcesRef
  /\ nextStartTimeRef = chunk.start + chunk.dur

\* ---- C23 -----------------------------------------------------------------------
\* C23: startSession begins only in IDLE and sets CONNECTING at once; the state
\* becomes ACTIVE only from CONNECTING, in the step in which a connection opens,
\* and that step appends one "[Connection Established]" entry and starts the
\* capture of that session; the marker is appended by no other step; and no
\* frame is queued or sent for a session whose open callback has not run.
C23_StartConnectsOpenActivates ==
  /\ [][ /\ nStarts' # nStarts => (Idle /\ isConnecting' /\ ~isActive')
         /\ (~isActive /\ isActive') =>
              /\ isConnecting /\ ~isConnecting'
              /\ transcription' = Append(transcription, ConnectionEstablished)
              /\ \E s \in Sessions :
                   /\ conn[s] = "opening" /\ conn'[s] = "open"
                   /\ s \notin capturing
                   /\ capturing' = capturing \cup {s}
         /\ (/\ transcription' # transcription
             /\ transcription'[Len(transcription')] = ConnectionEstablished)
              => (~isActive /\ isActive')
       ]_vars
  /\ [](\A s \in Sessions : pending[s] # <<>> => s \in capturing)
  /\ [](\A i \in DOMAIN sent : sent[i].conn \in capturing)

\* the second session is active after its open callback, and frames went out
C23_Witness ==
  /\ nStarts = 2
  /\ isActive
  /\ ~isConnecting
  /\ conn[2] = "open"
  /\ 2 \in capturing
  /\ Len(sent) >= 1
  /\ transcription[Len(transcription)] = ConnectionEstablished

\* ---- C24 -----------------------------------------------------------------------
\* C24: every step leaves the transcript as it was or appends one entry to its
\* end, the earlier entries staying in place; the fragment of a message that is
\* handled becomes the last entry, so fragments stand in the order of arrival.
C24_LogAppendOnly ==
  [][ /\ Len(transcription') >= Len(transcription)
      /\ Len(transcription') <= Len(transcription) + 1
      /\ SubSeq(transcription', 1, Len(transcription)) = transcription
      /\ \A s \in Sessions, m \in TextMessages :
           (~isStoppingRef /\ OnMessage(s, m)) =>
             transcription' = Append(transcription, AiLine(m.text))
    ]_vars

\* a log that holds an opening, a fragment, an end and a second opening
C24_Witness ==
  /\ Len(transcription) >= 4
  /\ transcription[1] = ConnectionEstablished
  /\ AiLine("hi") = transcription[2]
  /\ transcription[3] = SessionEnded
  /\ transcription[4] = ConnectionEstablished

\* ---- C25 -----------------------------------------------------------------------
\* C25: the frames of one session go out in the order of their capture: among
\* the frames sent, among the frames that wait for the connect promise, and
\* every frame sent before every frame of that session that still waits.
C25_FramesInCaptureOrder ==
  /\ \A i, j \in DOMAIN sent :
       (i < j /\ sent[i].conn = sent[j].conn) => sent[i].n < sent[j].n
  /\ \A s \in Sessions :
       /\ \A i, j \in DOMAIN pending[s] : i < j => pending[s][i] < pending[s][j]
       /\ \A i \in DOMAIN sent, k \in DOMAIN pending[s] :
            sent[i].conn = s => sent[i].n < pending[s][k]

\* two frames of one session, both captured before the connect promise had
\* resolved, have been sent
C25_Witness ==
  /\ Len(sent) = 2
  /\ sent[1].deferred /\ sent[2].deferred
  /\ sent[1].conn = sent[2].conn
  /\ sent[1].n = 1 /\ sent[2].n = 2

\* ---- C26 -----------------------------------------------------------------------
\* C26: only an authorization failure raises authError: a failed microphone
\* request, whatever its message, ends the attempt with authError as it was
\* (cleared by the start), and a transport error whose message names neither
\* 403 nor a permission ends the session with authError as it was.
C26_OnlyAuthorizationRaisesFlag ==
  [][ /\ \A s \in Sessions, e \in Errors :
           MicDenied(s, e) => (~isConnecting' /\ authError' = authError)
      /\ \A s \in Sessions :
           OnError(s, "other") => authError' = authError ]_vars

\* ---- C27 -----------------------------------------------------------------------
\* C27: the conversion does not clamp: each stored element lies in the signed
\* 16-bit range and differs by a multiple of 2^16 from the sample times 32768
\* with its fraction dropped (so in-range values are stored as they are and
\* out-of-range values wrap around), and +1.0 is stored as -32768.
C27_WrapsWithoutClamping ==
  int16 # <<>> =>
    /\ Len(int16) = Len(inputData)
    /\ \A i \in 1..Len(inputData) :
         LET a == inputData[i] * 32768
         IN  /\ -32768 <= int16[i] /\ int16[i] <= 32767
             /\ \E q \in -1..1 :
                  LET t == int16[i] + 65536 * q
                  IN  IF a >= 0
                      THEN t * SampleDen <= a /\ a < (t + 1) * SampleDen
                      ELSE a <= t * SampleDen /\ (t - 1) * SampleDen < a
             /\ inputData[i] = SampleDen => int16[i] = -32768

\* a buffer holding +1.0 and a small positive sample has been converted: the
\* first is stored wrapped around, the second as its truncation
C27_Witness ==
  /\ Len(int16) = 2
  /\ inputData[1] = SampleDen /\ int16[1] = -32768
  /\ inputData[2] = 1 /\ int16[2] > 0 /\ int16[2] * SampleDen <= 32768
  /\ pcmData # <<>>

\* ---- C28 -----------------------------------------------------------------------
\* C28: whenever the session is shown active the stop guard is clear, so the
\* End Call button of an active session always reaches the teardown.
C28_ActiveImpliesGuardClear ==
  isActive => ~isStoppingRef

\* ---- C29 -----------------------------------------------------------------------
\* C29: the session markers of the transcript are paired: every
\* "[Session Ended]" entry has a "[Connection Established]" entry before it
\* with no other "[Session Ended]" entry between the two.
C29_MarkersPaired ==
  \A j \in DOMAIN transcription :
    transcription[j] = SessionEnded =>
      \E i \in 1..(j - 1) :
        /\ transcription[i] = ConnectionEstablished
        /\ \A k \in (i + 1)..(j - 1) : transcription[k] # SessionEnded

\* ---- C30 -----------------------------------------------------------------------
\* C30: in the transcription panel the loading flag is true for as long as a
\* started transcription has not completed: while its file is being read or
\* its request is in flight, isLoading holds.
C30_LoadingUntilCompleted ==
  \A r \in Recordings :
    phase[r] \in {"started", "reading", "inflight"} => isLoading

====
